---------------------------- MODULE Spec2Model ----------------------------
(***************************************************************************)
(* volk_32f_s32f_power_32f: raise every element of a float vector to a     *)
(* scalar power.  Three kernels are modelled, as in                        *)
(* kernels/volk/volk_32f_s32f_power_32f.h:                                 *)
(*     volk_32f_s32f_power_32f_a_sse4_1   (lines  72-117)                  *)
(*     volk_32f_s32f_power_32f_a_sse      (lines 129-177)                  *)
(*     volk_32f_s32f_power_32f_generic    (lines 184-196)                  *)
(*                                                                         *)
(* Floats are bit patterns of a small sign/magnitude format that keeps the *)
(* IEEE-754 features the kernels depend on: signed zeros, infinities, NaN, *)
(* overflow to infinity, underflow to zero, +0.0 being the all-zero        *)
(* pattern and the sign being the top bit.  The finite magnitudes are the  *)
(* integers 1..FltMax and their reciprocals; inexact results are           *)
(* truncated toward zero.                                                  *)
(***************************************************************************)
EXTENDS Integers, Sequences, FiniteSets, TLC

(***************************************************************************)
(* Bounds of the model.                                                    *)
(***************************************************************************)
FltBits == 9
FltMax == 81
MaxCount == 10
PairMaxCount == 5

(***************************************************************************)
(* The float format.                                                       *)
(***************************************************************************)
RECURSIVE Pow2(_)
Pow2(n) == IF n = 0 THEN 1 ELSE 2 * Pow2(n - 1)

SignBit == Pow2(FltBits - 1)
AllOnes == Pow2(FltBits) - 1
InfCode == 2 * FltMax

IsBits(b) == b \in 0..AllOnes
Sgn(b) == b \div SignBit
Code(b) == b % SignBit

IsNaN(b) == ~IsBits(b) \/ Code(b) > InfCode
IsInf(b) == IsBits(b) /\ Code(b) = InfCode
IsZero(b) == IsBits(b) /\ Code(b) = 0
IsFinite(b) == IsBits(b) /\ Code(b) \in 1..(InfCode - 1)

\* magnitude of a finite non-zero pattern as the fraction Num/Den
Num(b) == IF Code(b) < FltMax THEN 1 ELSE Code(b) - FltMax + 1
Den(b) == IF Code(b) < FltMax THEN FltMax + 1 - Code(b) ELSE 1

QNaN == SignBit + InfCode + 1
FZero(s) == s * SignBit
FInf(s) == s * SignBit + InfCode
FInt(s, n) == s * SignBit + FltMax - 1 + n
FRecip(s, d) == s * SignBit + FltMax + 1 - d

\* uninitialised memory: no float pattern at all
Junk == 0 - 1

\* the exact positive fraction num/den brought into the format
Round(s, num, den) ==
    IF num >= den
    THEN LET q == num \div den
         IN IF q > FltMax THEN FInf(s) ELSE FInt(s, q)
    ELSE LET c == (den + num - 1) \div num
         IN IF c > FltMax THEN FZero(s) ELSE FRecip(s, c)

RECURSIVE PowUp(_, _, _)
\* acc * b^n, saturating at FltMax + 1
PowUp(b, n, acc) ==
    IF acc > FltMax THEN FltMax + 1
    ELSE IF n = 0 \/ b = 1 THEN acc
    ELSE PowUp(b, n - 1, acc * b)
PowSat(b, n) == PowUp(b, n, 1)

FloorRoot(m, d) ==
    CHOOSE r \in 1..m : PowSat(r, d) <= m /\ PowSat(r + 1, d) > m
CeilRoot(m, d) ==
    LET r == FloorRoot(m, d) IN IF PowSat(r, d) = m THEN r ELSE r + 1

IsInteger(y) == IsZero(y) \/ (IsFinite(y) /\ Den(y) = 1)
IsOddInt(y) == IsFinite(y) /\ Den(y) = 1 /\ Num(y) % 2 = 1

FNeg(b) == IF IsNaN(b) THEN QNaN ELSE (1 - Sgn(b)) * SignBit + Code(b)
FAbs(b) == IF IsNaN(b) THEN QNaN ELSE Code(b)

Key(b) == IF Sgn(b) = 1 THEN 0 - Code(b) ELSE Code(b)
FLess(a, b) == ~IsNaN(a) /\ ~IsNaN(b) /\ Key(a) < Key(b)

FMul(a, b) ==
    LET s == (Sgn(a) + Sgn(b)) % 2
    IN IF IsNaN(a) \/ IsNaN(b) THEN QNaN
       ELSE IF (IsInf(a) /\ IsZero(b)) \/ (IsZero(a) /\ IsInf(b)) THEN QNaN
       ELSE IF IsInf(a) \/ IsInf(b) THEN FInf(s)
       ELSE IF IsZero(a) \/ IsZero(b) THEN FZero(s)
       ELSE Round(s, Num(a) * Num(b), Den(a) * Den(b))

FSub(a, b) ==
    IF IsNaN(a) \/ IsNaN(b) THEN QNaN
    ELSE IF IsInf(a) /\ IsInf(b)
         THEN (IF Sgn(a) = Sgn(b) THEN QNaN ELSE a)
    ELSE IF IsInf(a) THEN a
    ELSE IF IsInf(b) THEN FNeg(b)
    ELSE IF IsZero(a) /\ IsZero(b)
         THEN (IF Sgn(a) = 1 /\ Sgn(b) = 0 THEN FZero(1) ELSE FZero(0))
    ELSE IF IsZero(b) THEN a
    ELSE IF IsZero(a) THEN FNeg(b)
    ELSE LET sa == IF Sgn(a) = 1 THEN 0 - 1 ELSE 1
             sb == IF Sgn(b) = 1 THEN 0 - 1 ELSE 1
             n == sa * Num(a) * Den(b) - sb * Num(b) * Den(a)
             d == Den(a) * Den(b)
         IN IF n = 0 THEN FZero(0)
            ELSE IF n < 0 THEN Round(1, 0 - n, d)
            ELSE Round(0, n, d)

(***************************************************************************)
(* powf of the C library (C99 Annex F.9.4.4), called at lines 88, 115,     *)
(* 145, 175 and 194.                                                       *)
(***************************************************************************)
powf(x, y) ==
    IF IsZero(y) THEN FInt(0, 1)
    ELSE IF x = FInt(0, 1) THEN FInt(0, 1)
    ELSE IF IsNaN(x) \/ IsNaN(y) THEN QNaN
    ELSE IF IsZero(x)
         THEN (IF Sgn(y) = 1
               THEN (IF IsOddInt(y) THEN FInf(Sgn(x)) ELSE FInf(0))
               ELSE (IF IsOddInt(y) THEN FZero(Sgn(x)) ELSE FZero(0)))
    ELSE IF IsInf(y)
         THEN (IF x = FInt(1, 1) THEN FInt(0, 1)
               ELSE IF IsFinite(x) /\ Den(x) > 1
                    THEN (IF Sgn(y) = 1 THEN FInf(0) ELSE FZero(0))
                    ELSE (IF Sgn(y) = 1 THEN FZero(0) ELSE FInf(0)))
    ELSE IF IsInf(x)
         THEN (IF Sgn(x) = 1
               THEN (IF Sgn(y) = 1
                     THEN (IF IsOddInt(y) THEN FZero(1) ELSE FZero(0))
                     ELSE (IF IsOddInt(y) THEN FInf(1) ELSE FInf(0)))
               ELSE (IF Sgn(y) = 1 THEN FZero(0) ELSE FInf(0)))
    ELSE IF Sgn(x) = 1 /\ ~IsInteger(y) THEN QNaN
    ELSE LET s == IF Sgn(x) = 1 /\ IsOddInt(y) THEN 1 ELSE 0
             n == IF Sgn(y) = 0 THEN Num(x) ELSE Den(x)
             d == IF Sgn(y) = 0 THEN Den(x) ELSE Num(x)
         IN IF Den(y) = 1
            THEN Round(s, PowSat(n, Num(y)), PowSat(d, Num(y)))
            ELSE Round(s, FloorRoot(n, Den(y)), CeilRoot(d, Den(y)))

(***************************************************************************)
(* The 128-bit vector operations the SIMD kernels use: four lanes each.    *)
(***************************************************************************)
VecWidth == 4
Lanes == 0..(VecWidth - 1)

RECURSIVE BitAnd(_, _, _)
BitAnd(a, b, n) ==
    IF n = 0 THEN 0
    ELSE (a % 2) * (b % 2) + 2 * BitAnd(a \div 2, b \div 2, n - 1)
RECURSIVE BitOr(_, _, _)
BitOr(a, b, n) ==
    IF n = 0 THEN 0
    ELSE ((a % 2) + (b % 2) - (a % 2) * (b % 2))
         + 2 * BitOr(a \div 2, b \div 2, n - 1)
BitNot(a) == BitAnd(AllOnes - a, AllOnes, FltBits)

mm_set_ps1(f) == [l \in Lanes |-> f]
mm_setzero_ps == [l \in Lanes |-> 0]

Rd(m, a) == IF a \in DOMAIN m THEN m[a] ELSE Junk
mm_load_ps(m, addr) == [l \in Lanes |-> Rd(m, addr + l)]
mm_store_ps(m, addr, v) ==
    [a \in DOMAIN m |-> IF a \in addr..(addr + VecWidth - 1) THEN v[a - addr] ELSE m[a]]

\* a compare that sets only the sign bit of the lanes where a < b
mm_cmplt_ps_sign_only(a, b) ==
    [l \in Lanes |-> IF FLess(a[l], b[l]) THEN SignBit ELSE 0]
\* per lane: all ones where a < b (ordered compare), all zeros elsewhere
mm_cmplt_ps(a, b) == [l \in Lanes |-> IF FLess(a[l], b[l]) THEN AllOnes ELSE 0]
mm_sub_ps(a, b) == [l \in Lanes |-> FSub(a[l], b[l])]
mm_mul_ps(a, b) == [l \in Lanes |-> FMul(a[l], b[l])]
mm_and_ps(a, b) == [l \in Lanes |-> BitAnd(a[l], b[l], FltBits)]
mm_andnot_ps(a, b) == [l \in Lanes |-> BitAnd(BitNot(a[l]), b[l], FltBits)]
mm_or_ps(a, b) == [l \in Lanes |-> BitOr(a[l], b[l], FltBits)]
\* per lane: b where the top bit of the mask is set, a elsewhere
mm_blendv_ps(a, b, mask) ==
    [l \in Lanes |-> IF (mask[l] \div SignBit) % 2 = 1 THEN b[l] ELSE a[l]]

\* powf4 of the vector-math library: the power of each lane.  A base below
\* zero is outside what it supports; such a lane gets the outcome u.
powf4(a, y, u) ==
    [l \in Lanes |-> IF FLess(a[l], 0) THEN u ELSE powf(a[l], y[l])]
Powf4Outcomes(a) ==
    IF \E l \in Lanes : FLess(a[l], 0)
    THEN {QNaN, FZero(0), FInt(0, 1), FInf(0), FInt(1, 1)}
    ELSE {QNaN}

(***************************************************************************)
(* State.  Two invocations (Procs) may be in flight; every function-local  *)
(* variable is indexed by the invocation that owns it.  mem is the address *)
(* space the float* arguments point into.                                  *)
(***************************************************************************)
Procs == {1, 2}
Variants == {"a_sse4_1", "a_sse", "generic"}

VARIABLES
    simdmath,            \* LV_HAVE_LIB_SIMDMATH of the build
    mem,                 \* address -> bit pattern (Junk: never written)
    variant,             \* the kernel each invocation runs ("idle": none)
    cVector, aVector,    \* arguments: output and input addresses
    power, num_points,   \* arguments
    aIn,                 \* the input sequence as it was when the call began
    pc,                  \* position of each invocation
    number, cPtr, aPtr,  \* locals
    quarterPoints, negativeOneToPower, signMask, aVal, cVal,
    trace                \* each invocation's loads and stores so far

args == <<simdmath, variant, cVector, aVector, power, num_points, aIn>>
regs == <<quarterPoints, negativeOneToPower, signMask, aVal, cVal>>
vars == <<mem, args, pc, number, cPtr, aPtr, regs, trace>>

vPower(p) == mm_set_ps1(power[p])
zeroValue == mm_setzero_ps
onesMask == mm_set_ps1(FInt(0, 1))

\* trace entries: <<"rd" | "wr", index into the vector, value, width>>
RdEvents(p, addr, vals, w) ==
    [k \in 1..w |-> <<"rd", addr + k - 1 - aVector[p], vals[k - 1], w>>]
WrEvents(p, addr, vals, w) ==
    [k \in 1..w |-> <<"wr", addr + k - 1 - cVector[p], vals[k - 1], w>>]

(***************************************************************************)
(* Initial states: the calls about to be made.                             *)
(***************************************************************************)
F(n) == IF n < 0 THEN FInt(1, 0 - n) ELSE IF n = 0 THEN FZero(0) ELSE FInt(0, n)

\* values the input vectors are cut from (cyclically)
Samples ==
    << F(0), F(1), F(2), F(3), F(4), F(5), F(6), F(7), F(8), F(9),
       F(-2), F(-1), F(0), F(1), F(2),
       F(-4), FInf(1), QNaN, FInf(0), FZero(1),
       FRecip(0, 2), FRecip(1, 2), F(0 - FltMax), FRecip(1, FltMax) >>
Powers ==
    { F(2), F(3), FRecip(0, 2), F(-2), F(-3), F(-1), F(0), F(1),
      FRecip(1, 2), FInf(0), FInf(1), QNaN }
PairOffsets == {10, 15}
PairPowers == {F(3), FRecip(0, 2)}

Window(off, n) == [i \in 0..(n - 1) |-> Samples[((off + i) % Len(Samples)) + 1]]

\* the buffers start on vector boundaries, as _mm_load_ps and _mm_store_ps
\* require of the aligned kernels; Pad elements of slack follow each vector
Pad == VecWidth
AlignUp(n) == ((n + VecWidth - 1) \div VecWidth) * VecWidth
Region(maxn) == 2 * AlignUp(maxn + Pad)
Idle == [variant |-> "idle", n |-> 0, off |-> 0, pw |-> 0, al |-> FALSE]
Configs(maxn, offs, pws) ==
    [variant : Variants, n : 0..maxn, off : offs, pw : pws, al : BOOLEAN]

InitWith(sm, cfg, maxn) ==
    LET active == {p \in Procs : cfg[p].variant # "idle"}
        abase == [p \in Procs |-> (p - 1) * Region(maxn)]
        cbase == [p \in Procs |->
                     IF cfg[p].al THEN abase[p] ELSE abase[p] + AlignUp(maxn + Pad)]
        nowhere == [l \in Lanes |-> Junk]
    IN /\ simdmath = sm
       /\ variant = [p \in Procs |-> cfg[p].variant]
       /\ aVector = abase
       /\ cVector = cbase
       /\ power = [p \in Procs |-> cfg[p].pw]
       /\ num_points = [p \in Procs |-> cfg[p].n]
       /\ aIn = [p \in Procs |-> Window(cfg[p].off, cfg[p].n)]
       /\ mem = [a \in 0..(Cardinality(active) * Region(maxn) - 1) |->
                    IF \E p \in active : a \in abase[p]..(abase[p] + cfg[p].n - 1)
                    THEN LET p == CHOOSE q \in active :
                                      a \in abase[q]..(abase[q] + cfg[q].n - 1)
                         IN Window(cfg[p].off, cfg[p].n)[a - abase[p]]
                    ELSE Junk]
       /\ pc = [p \in Procs |-> IF p \in active THEN "entry" ELSE "idle"]
       /\ number = [p \in Procs |-> 0]
       /\ cPtr = [p \in Procs |-> 0]
       /\ aPtr = [p \in Procs |-> 0]
       /\ quarterPoints = [p \in Procs |-> 0]
       /\ negativeOneToPower = [p \in Procs |-> nowhere]
       /\ signMask = [p \in Procs |-> nowhere]
       /\ aVal = [p \in Procs |-> nowhere]
       /\ cVal = [p \in Procs |-> nowhere]
       /\ trace = [p \in Procs |-> << >>]

\* one call, of any kernel, on any window of the samples
Init ==
    \E sm \in BOOLEAN, c \in Configs(MaxCount, 0..(Len(Samples) - 1), Powers) :
        InitWith(sm, [p \in Procs |-> IF p = 1 THEN c ELSE Idle], MaxCount)

\* two calls in flight at once, each on buffers of its own
InitPair ==
    \E sm \in BOOLEAN,
       c1 \in Configs(PairMaxCount, PairOffsets, PairPowers),
       c2 \in {c \in Configs(PairMaxCount, PairOffsets, PairPowers) : ~c.al}
                \cup {Idle} :
        InitWith(sm, [p \in Procs |-> IF p = 1 THEN c1 ELSE c2], PairMaxCount)

(***************************************************************************)
(* Steps common to the kernels.                                            *)
(***************************************************************************)
\* line 83 / 140: the number of whole batches
QuarterRoundedUp(n) == (n + 3) \div 4
Quarter(n) == n \div 4

\* line 88 / 145: powf(-1, power), the factor of the lanes that were negative
SignAlwaysFlipped(pw) == FInt(1, 1)
SignToPower(pw) == powf(FInt(1, 1), pw)

\* lines 114, 174, 193: the condition of the element-by-element loops
LoopCondInclusive(i, n) == i <= n
LoopCond(i, n) == i < n

\* lines 77-91 / 134-148 / 189-191: the declarations before the loops
Declarations(p, batched) ==
    /\ pc[p] = "entry"
    /\ number' = [number EXCEPT ![p] = 0]
    /\ cPtr' = [cPtr EXCEPT ![p] = cVector[p]]
    /\ aPtr' = [aPtr EXCEPT ![p] = aVector[p]]
    /\ IF batched
       THEN /\ quarterPoints' = [quarterPoints EXCEPT ![p] = Quarter(num_points[p])]
            /\ negativeOneToPower' =
                   [negativeOneToPower EXCEPT
                       ![p] = mm_set_ps1(SignToPower(power[p]))]
            /\ pc' = [pc EXCEPT ![p] = "batch"]
       ELSE /\ UNCHANGED <<quarterPoints, negativeOneToPower>>
            /\ pc' = [pc EXCEPT ![p] = "scalar"]
    /\ UNCHANGED <<mem, args, signMask, aVal, cVal, trace>>

\* the store of a batch through an output pointer shared by all invocations
StoreBatchSharedPointer(p) ==
    /\ pc[p] = "store"
    /\ mem' = mm_store_ps(mem, cVector[1] + 4 * number[p], cVal[p])
    /\ trace' = [trace EXCEPT
           ![p] = @ \o WrEvents(p, cVector[1] + 4 * number[p], cVal[p], VecWidth)]
    /\ aPtr' = [aPtr EXCEPT ![p] = @ + 4]
    /\ cPtr' = [cPtr EXCEPT ![p] = @ + 4]
    /\ number' = [number EXCEPT ![p] = @ + 1]
    /\ pc' = [pc EXCEPT ![p] = "batch"]
    /\ UNCHANGED <<args, regs>>

\* lines 105-108 / 165-168 and the loop's number++
StoreBatch(p) ==
    /\ pc[p] = "store"
    /\ mem' = mm_store_ps(mem, cPtr[p], cVal[p])
    /\ trace' = [trace EXCEPT ![p] = @ \o WrEvents(p, cPtr[p], cVal[p], VecWidth)]
    /\ aPtr' = [aPtr EXCEPT ![p] = @ + 4]
    /\ cPtr' = [cPtr EXCEPT ![p] = @ + 4]
    /\ number' = [number EXCEPT ![p] = @ + 1]
    /\ pc' = [pc EXCEPT ![p] = "batch"]
    /\ UNCHANGED <<args, regs>>

\* the batch loop's condition failing, then line 111 / 171
LeaveBatches(p) ==
    /\ pc[p] = "batch"
    /\ ~(number[p] < quarterPoints[p])
    /\ number' = [number EXCEPT ![p] = quarterPoints[p] * 4]
    /\ pc' = [pc EXCEPT ![p] = "scalar"]
    /\ UNCHANGED <<mem, args, cPtr, aPtr, regs, trace>>

\* the element step with the output element cleared before the input is read
ScalarStepClearsFirst(p) ==
    /\ pc[p] = "scalar"
    /\ LoopCond(number[p], num_points[p])
    /\ LET cleared == [x \in DOMAIN mem |-> IF x = cPtr[p] THEN 0 ELSE mem[x]]
           a == Rd(cleared, aPtr[p])
           c == powf(a, power[p])
       IN /\ mem' = [x \in DOMAIN mem |-> IF x = cPtr[p] THEN c ELSE mem[x]]
          /\ trace' = [trace EXCEPT
                 ![p] = @ \o WrEvents(p, cPtr[p], [l \in {0} |-> 0], 1)
                          \o RdEvents(p, aPtr[p], [l \in {0} |-> a], 1)
                          \o WrEvents(p, cPtr[p], [l \in {0} |-> c], 1)]
    /\ aPtr' = [aPtr EXCEPT ![p] = @ + 1]
    /\ cPtr' = [cPtr EXCEPT ![p] = @ + 1]
    /\ number' = [number EXCEPT ![p] = @ + 1]
    /\ UNCHANGED <<args, pc, regs>>

\* lines 114-116 / 174-176 / 193-195: *cPtr++ = powf((*aPtr++), power)
ScalarStep(p) ==
    /\ pc[p] = "scalar"
    /\ LoopCond(number[p], num_points[p])
    /\ LET a == Rd(mem, aPtr[p])
           c == powf(a, power[p])
       IN /\ mem' = [x \in DOMAIN mem |-> IF x = cPtr[p] THEN c ELSE mem[x]]
          /\ trace' = [trace EXCEPT
                 ![p] = @ \o RdEvents(p, aPtr[p], [l \in {0} |-> a], 1)
                          \o WrEvents(p, cPtr[p], [l \in {0} |-> c], 1)]
    /\ aPtr' = [aPtr EXCEPT ![p] = @ + 1]
    /\ cPtr' = [cPtr EXCEPT ![p] = @ + 1]
    /\ number' = [number EXCEPT ![p] = @ + 1]
    /\ UNCHANGED <<args, pc, regs>>

\* the return of a loop that stops one element early
ReturnOneEarly(p) ==
    /\ pc[p] = "scalar"
    /\ ~LoopCond(number[p] + 1, num_points[p])
    /\ pc' = [pc EXCEPT ![p] = "done"]
    /\ UNCHANGED <<mem, args, number, cPtr, aPtr, regs, trace>>

\* the last loop's condition failing: the function returns
Return(p) ==
    /\ pc[p] = "scalar"
    /\ ~LoopCond(number[p], num_points[p])
    /\ pc' = [pc EXCEPT ![p] = "done"]
    /\ UNCHANGED <<mem, args, number, cPtr, aPtr, regs, trace>>

\* the registers after a batch's arithmetic, given the loaded lanes a, the
\* magnitudes m and the correction factor f selected under the mask s
Computed(p, a, s, m, f, u) ==
    /\ signMask' = [signMask EXCEPT ![p] = s]
    /\ aVal' = [aVal EXCEPT ![p] = m]
    /\ cVal' = [cVal EXCEPT ![p] = mm_mul_ps(f, powf4(m, vPower(p), u))]
    /\ trace' = [trace EXCEPT ![p] = @ \o RdEvents(p, aPtr[p], a, VecWidth)]
    /\ pc' = [pc EXCEPT ![p] = "store"]
    /\ UNCHANGED <<mem, args, number, cPtr, aPtr, quarterPoints, negativeOneToPower>>

(***************************************************************************)
(* volk_32f_s32f_power_32f_a_sse4_1                                        *)
(***************************************************************************)
sse4_1_declarations(p) ==
    variant[p] = "a_sse4_1" /\ Declarations(p, simdmath)

\* lines 92-103: one batch, lanes selected by _mm_blendv_ps
sse4_1_batch(p) ==
    /\ variant[p] = "a_sse4_1"
    /\ pc[p] = "batch"
    /\ number[p] < quarterPoints[p]
    /\ LET a == mm_load_ps(mem, aPtr[p])
           s == mm_cmplt_ps(a, zeroValue)
           negatedValues == mm_sub_ps(zeroValue, a)
           m == mm_blendv_ps(a, negatedValues, s)
           f == mm_blendv_ps(onesMask, negativeOneToPower[p], s)
       IN \E u \in Powf4Outcomes(m) : Computed(p, a, s, m, f, u)

sse4_1_store(p) == variant[p] = "a_sse4_1" /\ StoreBatch(p)
sse4_1_leave_batches(p) == variant[p] = "a_sse4_1" /\ LeaveBatches(p)
sse4_1_tail(p) == variant[p] = "a_sse4_1" /\ ScalarStep(p)
sse4_1_return(p) == variant[p] = "a_sse4_1" /\ Return(p)

(***************************************************************************)
(* volk_32f_s32f_power_32f_a_sse                                           *)
(***************************************************************************)
\* the batch loop compiled in whatever the build has
sse_declarations_always_batched(p) ==
    variant[p] = "a_sse" /\ Declarations(p, TRUE)
sse_declarations(p) ==
    variant[p] = "a_sse" /\ Declarations(p, simdmath)

\* lines 149-163: one batch, lanes selected by and / andnot / or
sse_batch(p) ==
    /\ variant[p] = "a_sse"
    /\ pc[p] = "batch"
    /\ number[p] < quarterPoints[p]
    /\ LET a == mm_load_ps(mem, aPtr[p])
           s == mm_cmplt_ps(a, zeroValue)
           negatedValues == mm_sub_ps(zeroValue, a)
           m == mm_or_ps(mm_andnot_ps(s, a), mm_and_ps(s, negatedValues))
           f == mm_or_ps(mm_andnot_ps(s, onesMask),
                         mm_and_ps(s, negativeOneToPower[p]))
       IN \E u \in Powf4Outcomes(m) : Computed(p, a, s, m, f, u)

sse_store(p) == variant[p] = "a_sse" /\ StoreBatch(p)
sse_leave_batches(p) == variant[p] = "a_sse" /\ LeaveBatches(p)
sse_tail(p) == variant[p] = "a_sse" /\ ScalarStep(p)
sse_return(p) == variant[p] = "a_sse" /\ Return(p)

(***************************************************************************)
(* volk_32f_s32f_power_32f_generic                                         *)
(***************************************************************************)
generic_declarations(p) == variant[p] = "generic" /\ Declarations(p, FALSE)
generic_loop(p) == variant[p] = "generic" /\ ScalarStep(p)
generic_return(p) == variant[p] = "generic" /\ Return(p)

Next ==
    \E p \in Procs :
        \/ sse4_1_declarations(p)
        \/ sse4_1_batch(p)
        \/ sse4_1_store(p)
        \/ sse4_1_leave_batches(p)
        \/ sse4_1_tail(p)
        \/ sse4_1_return(p)
        \/ sse_declarations(p)
        \/ sse_batch(p)
        \/ sse_store(p)
        \/ sse_leave_batches(p)
        \/ sse_tail(p)
        \/ sse_return(p)
        \/ generic_declarations(p)
        \/ generic_loop(p)
        \/ generic_return(p)

Spec == Init /\ [][Next]_vars
SpecPair == InitPair /\ [][Next]_vars

(***************************************************************************)
(* Vocabulary of the properties.                                           *)
(***************************************************************************)
Active == {p \in Procs : pc[p] # "idle"}
Done(p) == pc[p] = "done"
Simd(p) == variant[p] \in {"a_sse4_1", "a_sse"}
Batched(p) == Simd(p) /\ simdmath
Indices(p) == 0..(num_points[p] - 1)
Out(p, i) == Rd(mem, cVector[p] + i)
In(p, i) == IF i \in DOMAIN aIn[p] THEN aIn[p][i] ELSE Junk
Aliased(p) == cVector[p] = aVector[p]

\* equal values, or both NaN
FSame(a, b) == IsBits(a) /\ IsBits(b) /\ (a = b \/ (IsNaN(a) /\ IsNaN(b)))

Events(p) == 1..Len(trace[p])
Reads(p, w) == {k \in Events(p) : trace[p][k][1] = "rd" /\ trace[p][k][4] = w}
Writes(p, w) == {k \in Events(p) : trace[p][k][1] = "wr" /\ trace[p][k][4] = w}
AllWrites(p) == Writes(p, 1) \cup Writes(p, VecWidth)
IdxOf(p, ks) == {trace[p][k][2] : k \in ks}

\* two invocations called with the same input, power and count
SameCall(p, q) ==
    /\ aIn[p] = aIn[q]
    /\ power[p] = power[q]
    /\ num_points[p] = num_points[q]

IsPrefix(s, t) == Len(s) <= Len(t) /\ \A k \in 1..Len(s) : s[k] = t[k]

(***************************************************************************)
(* C1.  When the generic kernel has returned, output[i] is                 *)
(* powf(input[i], power) for every i below num_points.                     *)
(***************************************************************************)
C1_GenericIsPowf ==
    \A p \in Active :
        (variant[p] = "generic" /\ Done(p)) =>
            \A i \in Indices(p) : Out(p, i) = powf(In(p, i), power[p])

\* the example of the documentation page: the squares of 0..9
C1_SquaresOfZeroToNine ==
    /\ variant[1] = "generic" /\ Done(1)
    /\ num_points[1] = 10 /\ power[1] = F(2)
    /\ \A i \in 0..9 : aIn[1][i] = F(i) /\ Out(1, i) = F(i * i)

(***************************************************************************)
(* C2.  A SIMD kernel and the generic kernel, called with the same input,  *)
(* power and count, return the same output element by element, NaN for     *)
(* NaN.  The code breaks this where the input is -infinity and the power   *)
(* is finite and not an integer: powf gives +infinity or +0, the batch NaN.*)
(***************************************************************************)
C2_SimdAgreesWithGeneric ==
    \A p, q \in Active :
        (Simd(p) /\ variant[q] = "generic" /\ SameCall(p, q) /\ Done(p) /\ Done(q)) =>
            \A i \in Indices(p) : FSame(Out(p, i), Out(q, i))

(***************************************************************************)
(* C3.  Every element a batch stores is the correction factor times the    *)
(* power of the magnitude: for a negative input, powf(-1, power) *         *)
(* powf4(|input|, power), which for an integer power is powf(input, power) *)
(* in sign and magnitude; for an input >= 0, 1.0 * powf4(input, power).    *)
(***************************************************************************)
C3_SignHandling ==
    \A p \in Active : \A k \in Writes(p, VecWidth) :
        LET i == trace[p][k][2]
            v == trace[p][k][3]
            x == In(p, i)
            y == power[p]
        IN /\ i \in Indices(p)
           /\ FLess(x, 0) =>
                 /\ v = FMul(powf(FInt(1, 1), y), powf(FAbs(x), y))
                 /\ IsInteger(y) => v = powf(x, y)
           /\ (~FLess(x, 0) /\ ~IsNaN(x)) =>
                 /\ v = FMul(FInt(0, 1), powf(x, y))
                 /\ v = powf(x, y)

\* the cubes of -2..2, the first four from a batch
C3_CubesOfMinusTwoToTwo ==
    /\ Batched(1) /\ Done(1)
    /\ num_points[1] = 5 /\ power[1] = F(3)
    /\ \A i \in 0..4 : aIn[1][i] = F(i - 2) /\ Out(1, i) = F((i - 2) * (i - 2) * (i - 2))
    /\ IdxOf(1, Writes(1, VecWidth)) = 0..3

\* the indices the batch loop and the tail loop have handled so far
TailPartition(p) ==
    LET k == num_points[p] \div 4
        bw == IdxOf(p, Writes(p, VecWidth))
        sw == IdxOf(p, Writes(p, 1))
    IN /\ pc[p] = "entry" => bw = {} /\ sw = {}
       /\ pc[p] \in {"batch", "store"} =>
             /\ number[p] <= k
             /\ bw = 0..(4 * number[p] - 1)
             /\ sw = {}
       /\ pc[p] \in {"scalar", "done"} =>
             /\ bw = 0..(4 * k - 1)
             /\ Cardinality(Reads(p, VecWidth)) = 4 * k
             /\ Cardinality(Writes(p, VecWidth)) = 4 * k
             /\ sw = (4 * k)..(number[p] - 1)
             /\ Cardinality(Writes(p, 1)) = number[p] - 4 * k
             /\ \A j \in Writes(p, 1) :
                   trace[p][j][3] = powf(In(p, trace[p][j][2]), power[p])
       /\ Done(p) => number[p] = num_points[p]

WholeOutputCorrect(p) ==
    Done(p) => \A i \in Indices(p) : FSame(Out(p, i), powf(In(p, i), power[p]))

(***************************************************************************)
(* C4.  With num_points = 4k + r: the batch loop handles exactly the       *)
(* indices below 4k in k batches, the tail loop then handles exactly the   *)
(* r indices from 4k on with the scalar formula, and the whole output is   *)
(* correct (it is powf(input[i], power) at every index).  The code keeps   *)
(* the partition; the output of a batch is wrong where C2 fails.           *)
(***************************************************************************)
C4_TailAndOutputCorrect ==
    \A p \in Active : Batched(p) => TailPartition(p) /\ WholeOutputCorrect(p)

\* the partition of the indices between the two loops, on its own
C4_TailPartitionOnly ==
    \A p \in Active : Batched(p) => TailPartition(p)

(***************************************************************************)
(* C5.  No load or store of a call falls outside [0, num_points), no       *)
(* output index is stored twice, and on return every output index has been *)
(* stored exactly once.                                                    *)
(***************************************************************************)
C5_InBoundsWrittenOnce ==
    \A p \in Active :
        /\ \A k \in Events(p) : trace[p][k][2] \in Indices(p)
        /\ \A j, k \in AllWrites(p) : trace[p][j][2] = trace[p][k][2] => j = k
        /\ Done(p) => IdxOf(p, AllWrites(p)) = Indices(p)

\* a returned call of one batch and three tail elements
C5_BatchAndTailWritten ==
    /\ Batched(1) /\ Done(1) /\ num_points[1] = 7
    /\ Cardinality(Writes(1, VecWidth)) = 4
    /\ Cardinality(Writes(1, 1)) = 3

(***************************************************************************)
(* C6.  A call with num_points = 0 loads nothing and stores nothing.       *)
(***************************************************************************)
C6_ZeroLengthNoAccess ==
    \A p \in Active :
        num_points[p] = 0 =>
            /\ trace[p] = << >>
            /\ pc[p] \notin {"store"}
            /\ \A a \in DOMAIN mem :
                  (\A q \in Active \ {p} : a \notin cVector[q]..(cVector[q] + num_points[q] - 1)
                                           /\ a \notin aVector[q]..(aVector[q] + num_points[q] - 1))
                      => mem[a] = Junk

\* a SIMD kernel with its batch loop compiled in, returned from an empty call
C6_EmptyCallReturned ==
    Batched(1) /\ num_points[1] = 0 /\ Done(1)

(***************************************************************************)
(* C7.  Output element i is stored only after input element i was loaded, *)
(* and a call whose output is its input buffer returns the same output as  *)
(* the same call on distinct buffers.                                      *)
(***************************************************************************)
C7_InPlaceSameOutput ==
    /\ \A p \in Active : \A k \in AllWrites(p) :
           \E j \in 1..(k - 1) :
               trace[p][j][1] = "rd" /\ trace[p][j][2] = trace[p][k][2]
    /\ \A p, q \in Active :
           (/\ variant[p] = variant[q] /\ SameCall(p, q)
            /\ Aliased(p) /\ ~Aliased(q) /\ Done(p) /\ Done(q)) =>
               \A i \in Indices(p) : Out(p, i) = Out(q, i)

\* an in-place call and its twin on distinct buffers, one batch and a tail each
C7_InPlaceTwinReturned ==
    /\ Batched(1) /\ variant[2] = variant[1] /\ SameCall(1, 2)
    /\ Aliased(1) /\ ~Aliased(2) /\ num_points[1] = 5
    /\ Done(1) /\ Done(2)

(***************************************************************************)
(* C8.  Built without the vector-math library, a SIMD-named kernel takes   *)
(* no batch step and makes the loads and stores of the generic kernel, in  *)
(* the same order with the same values.                                    *)
(***************************************************************************)
C8_NoSimdmathIsScalar ==
    ~simdmath =>
        /\ \A p \in Active :
               /\ pc[p] \notin {"batch", "store"}
               /\ Reads(p, VecWidth) = {} /\ Writes(p, VecWidth) = {}
        /\ \A p, q \in Active :
               (Simd(p) /\ variant[q] = "generic" /\ SameCall(p, q)) =>
                   /\ IsPrefix(trace[p], trace[q]) \/ IsPrefix(trace[q], trace[p])
                   /\ (Done(p) /\ Done(q)) => trace[p] = trace[q]

\* the SSE kernel without the library and the generic kernel, same call, returned
C8_ScalarTwinReturned ==
    /\ ~simdmath /\ variant[1] = "a_sse" /\ variant[2] = "generic"
    /\ SameCall(1, 2) /\ num_points[1] = 5
    /\ Done(1) /\ Done(2) /\ Len(trace[1]) = 10

IsStore(p, k, i) == trace[p][k][1] = "wr" /\ trace[p][k][2] = i
\* the addresses stored to so far, and the addresses of the input vectors
StoredTo ==
    UNION {{cVector[p] + trace[p][k][2] : k \in AllWrites(p)} : p \in Active}
InputAt == UNION {{aVector[p] + i : i \in Indices(p)} : p \in Active}

\* what a call run on its own leaves at index i
AloneOut(p, i) ==
    IF Batched(p) /\ i < 4 * (num_points[p] \div 4) /\ FLess(In(p, i), 0)
    THEN FMul(powf(FInt(1, 1), power[p]), powf(FAbs(In(p, i)), power[p]))
    ELSE powf(In(p, i), power[p])

(***************************************************************************)
(* C9.  Calls in flight together on disjoint buffers: a call loads and     *)
(* stores only inside its own vectors, memory holds at every address what  *)
(* its owner last stored there (or what it held at the start), and each    *)
(* call returns the output it returns when it runs alone.                  *)
(***************************************************************************)
C9_ConcurrentCallsIndependent ==
    /\ \A p \in Active : \A k \in Events(p) : trace[p][k][2] \in Indices(p)
    /\ \A p \in Active : \A k \in 1..Len(trace[p]) :
           (/\ trace[p][k][1] = "wr"
            /\ \A j \in (k + 1)..Len(trace[p]) : ~IsStore(p, j, trace[p][k][2])) =>
               Out(p, trace[p][k][2]) = trace[p][k][3]
    /\ LET st == StoredTo
       IN /\ \A p \in Active : \A i \in Indices(p) :
                 (aVector[p] + i) \notin st => mem[aVector[p] + i] = aIn[p][i]
          /\ \A a \in DOMAIN mem \ (st \cup InputAt) : mem[a] = Junk
    /\ \A p \in Active : Done(p) => \A i \in Indices(p) : Out(p, i) = AloneOut(p, i)

\* two different calls, each with a batch, both returned
C9_TwoCallsReturned ==
    /\ Done(1) /\ Done(2) /\ simdmath
    /\ variant[1] = "a_sse4_1" /\ variant[2] = "a_sse"
    /\ power[1] # power[2] /\ aIn[1] # aIn[2]
    /\ num_points[1] = 5 /\ num_points[2] = 4

\* the lanes of the latest batch load
LastLoaded(p) ==
    LET n == Len(trace[p])
    IN [l \in Lanes |-> trace[p][n - (VecWidth - 1) + l][3]]

(***************************************************************************)
(* C10.  On the masks the compare produces (all ones or all zeros in each  *)
(* lane) the and/andnot/or selection of the SSE kernel picks the lanes     *)
(* _mm_blendv_ps picks, for the magnitudes and for the correction factor,  *)
(* and the two kernels return the same output for the same call.           *)
(***************************************************************************)
C10_MaskSelectIsBlend ==
    /\ \A p \in Active :
           (Batched(p) /\ pc[p] = "store") =>
               LET a == LastLoaded(p)
                   s == signMask[p]
                   neg == mm_sub_ps(zeroValue, a)
               IN /\ \A l \in Lanes : s[l] \in {0, AllOnes}
                  /\ mm_or_ps(mm_andnot_ps(s, a), mm_and_ps(s, neg))
                         = mm_blendv_ps(a, neg, s)
                  /\ mm_or_ps(mm_andnot_ps(s, onesMask),
                              mm_and_ps(s, negativeOneToPower[p]))
                         = mm_blendv_ps(onesMask, negativeOneToPower[p], s)
                  /\ aVal[p] = mm_blendv_ps(a, neg, s)
    /\ \A p, q \in Active :
           (/\ variant[p] = "a_sse" /\ variant[q] = "a_sse4_1"
            /\ SameCall(p, q) /\ Done(p) /\ Done(q)) =>
               \A i \in Indices(p) : Out(p, i) = Out(q, i)

\* both kernels returned from the same call, the batch having mixed signs
C10_BothKernelsReturned ==
    /\ simdmath /\ variant[1] = "a_sse" /\ variant[2] = "a_sse4_1"
    /\ SameCall(1, 2) /\ num_points[1] = 5 /\ Done(1) /\ Done(2)
    /\ \E l, m \in Lanes : signMask[1][l] = AllOnes /\ signMask[1][m] = 0

=============================================================================
